---- MODULE Spec2Model ----
(***************************************************************************)
(* A model of src/base.py: the CodeBuilder accumulator and the Template    *)
(* compiler (token loop, expression compiler, tag state machine, render).  *)
(*                                                                         *)
(* Python strings are sequences of one-character strings; the fixed pieces *)
(* of a format string ("to_str(", "c_", ...) are kept as single elements.  *)
(***************************************************************************)
EXTENDS Integers, Sequences, FiniteSets, TLC

(* ------------------------------ bounds -------------------------------- *)

\* Most markers ({{..}}, {%..%}, {#..#}) in a template; re.split then gives
\* a token list of at most 2 * MaxMarkers + 1 tokens.
MaxMarkers == 3

\* Longest expression text given to _expr_code on its own.
MaxExprLen == 5

\* Most operations applied to a tree of CodeBuilders on its own.
MaxOps == 5

\* Most render calls made on one Template.
MaxRenders == 2

(* ------------------------------ strings ------------------------------- *)

Alpha == {"_", "a", "b", "c", "f", "x"}

Digit == {"1"}

Space == {" "}

RECURSIVE Join(_, _)
\* sep.join(parts)
Join(parts, sep) ==
  IF parts = <<>> THEN <<>>
  ELSE IF Len(parts) = 1 THEN parts[1]
  ELSE parts[1] \o sep \o Join(Tail(parts), sep)

RECURSIVE SplitOn(_, _)
\* s.split(sep) for a one-character sep: empty pieces are kept.
SplitOn(s, sep) ==
  IF \A i \in 1..Len(s) : s[i] # sep THEN <<s>>
  ELSE LET k == CHOOSE i \in 1..Len(s) :
                  s[i] = sep /\ \A j \in 1..(i - 1) : s[j] # sep
       IN <<SubSeq(s, 1, k - 1)>> \o SplitOn(SubSeq(s, k + 1, Len(s)), sep)

RECURSIVE Strip(_)
\* s.strip()
Strip(s) ==
  IF s = <<>> THEN s
  ELSE IF s[1] \in Space THEN Strip(Tail(s))
  ELSE IF s[Len(s)] \in Space THEN Strip(SubSeq(s, 1, Len(s) - 1))
  ELSE s

RECURSIVE SplitWords(_)
\* s.split(): split on runs of whitespace, no empty pieces.
SplitWords(s) ==
  LET t == Strip(s) IN
  IF t = <<>> THEN <<>>
  ELSE IF \A i \in 1..Len(t) : t[i] \notin Space THEN <<t>>
  ELSE LET k == CHOOSE i \in 1..Len(t) :
                  t[i] \in Space /\ \A j \in 1..(i - 1) : t[j] \notin Space
       IN <<SubSeq(t, 1, k - 1)>> \o SplitWords(SubSeq(t, k + 1, Len(t)))

\* repr(s) of a string without quotes or escapes in it.
Repr(s) == <<"'">> \o s \o <<"'">>

\* s.startswith(p)
StartsWith(s, p) == Len(s) >= Len(p) /\ SubSeq(s, 1, Len(p)) = p

\* re.match(r"[_a-zA-Z][_a-zA-Z0-9]*$", name) succeeds.  `$` also matches
\* just before one trailing newline.
IsIdent(name) ==
  LET body == IF name # <<>> /\ name[Len(name)] = "\n"
              THEN SubSeq(name, 1, Len(name) - 1) ELSE name
  IN /\ body # <<>>
     /\ body[1] \in Alpha
     /\ \A i \in 1..Len(body) : body[i] \in Alpha \cup Digit

(* ---------------------------- CodeBuilder ----------------------------- *)

INDENT_STEP == 4

\* " " * n has no characters for n <= 0.
Pad(n) == IF n > 0 THEN n ELSE 0

\* The heap of CodeBuilder objects is a sequence; an object's id is its
\* index.  An item of `code` is a line (the three strings add_line appends:
\* the padding, the line, the newline) or a reference to a section.
NewBuilder(indent) == [code |-> <<>>, indent_level |-> indent]

LineItem(pad, line) == [kind |-> "line", pad |-> pad, line |-> line, ref |-> 0]

SectionItem(ref) == [kind |-> "section", pad |-> 0, line |-> <<>>, ref |-> ref]

add_line(h, self, line) ==
  [h EXCEPT ![self].code =
     Append(@, LineItem(Pad(h[self].indent_level), line))]

\* indent leaving the level where it is.
indent_Nowhere(h, self) == h

indent(h, self) ==
  [h EXCEPT ![self].indent_level = @ + INDENT_STEP]

dedent(h, self) ==
  [h EXCEPT ![self].indent_level = @ - INDENT_STEP]

\* add_section putting the section first in the parent, not at the
\* current position.
add_section_AtFront(h, self) ==
  Append([h EXCEPT ![self].code = <<[kind |-> "section", pad |-> 0,
                                     line |-> <<>>, ref |-> Len(h) + 1]>> \o @],
         NewBuilder(h[self].indent_level))

\* The id of the section add_section returns.
SectionId(h) == Len(h) + 1

add_section(h, self) ==
  Append([h EXCEPT ![self].code = Append(@, SectionItem(SectionId(h)))],
         NewBuilder(h[self].indent_level))

RECURSIVE StrItems(_, _)
RECURSIVE Str(_, _)
\* str(builder): the lines of the whole tree in insertion order.
Str(h, self) == StrItems(h, h[self].code)

StrItems(h, items) ==
  IF items = <<>> THEN <<>>
  ELSE (IF items[1].kind = "line"
        THEN <<[pad |-> items[1].pad, line |-> items[1].line]>>
        ELSE Str(h, items[1].ref))
       \o StrItems(h, Tail(items))

(* ------------------------- errors and variables ----------------------- *)

NoError == [type |-> "none", msg |-> "", thing |-> <<>>]

\* _syntax_error evaluates the name TemplateSyntaxError, which the module
\* never defines: the raise statement fails with a NameError before the
\* message is formatted, so neither msg nor thing reaches the exception.
_syntax_error(msg, thing) ==
  [type |-> "NameError", msg |-> "name is not defined",
   thing |-> <<"TemplateSyntaxError">>]

\* words[0] on an empty list.
IndexError == [type |-> "IndexError", msg |-> "list index out of range",
               thing |-> <<>>]

\* A failed assert statement.
AssertionError == [type |-> "AssertionError", msg |-> "", thing |-> <<>>]

\* exec() of a source text whose function body is not indented.
IndentationError == [type |-> "IndentationError",
                     msg |-> "expected an indented block", thing |-> <<>>]

\* _variable(name, vars_set): the set afterwards, or the error raised.
_variable(name, vars_set) ==
  IF IsIdent(name)
  THEN [ok |-> TRUE, set |-> vars_set \cup {name}, err |-> NoError]
  ELSE [ok |-> FALSE, set |-> vars_set,
        err |-> _syntax_error("Invalid name", name)]

(* ------------------------- expression compiler ------------------------ *)

\* No expression compiled yet.
NoResult == [ok |-> FALSE, code |-> <<>>, vars |-> {}, err |-> NoError]

RECURSIVE ApplyFilters_RightToLeft(_, _)
\* The filter loop walking pipes[1:] from its last name to its first.
ApplyFilters_RightToLeft(funcs, acc) ==
  IF funcs = <<>> \/ ~acc.ok THEN acc
  ELSE LET f == funcs[Len(funcs)]
           v == _variable(f, acc.vars)
       IN IF ~v.ok
          THEN [ok |-> FALSE, code |-> acc.code, vars |-> acc.vars,
                err |-> v.err]
          ELSE ApplyFilters_RightToLeft(SubSeq(funcs, 1, Len(funcs) - 1),
                 [ok |-> TRUE,
                  code |-> <<"c_">> \o f \o <<"(">> \o acc.code \o <<")">>,
                  vars |-> v.set, err |-> NoError])

RECURSIVE ApplyFilters(_, _)
\* The loop `for func in pipes[1:]`: acc is the result so far,
\* [ok, code, vars, err].
ApplyFilters(funcs, acc) ==
  IF funcs = <<>> \/ ~acc.ok THEN acc
  ELSE LET v == _variable(funcs[1], acc.vars) IN
       IF ~v.ok
       THEN [ok |-> FALSE, code |-> acc.code, vars |-> acc.vars, err |-> v.err]
       ELSE ApplyFilters(Tail(funcs),
              [ok |-> TRUE,
               code |-> <<"c_">> \o funcs[1] \o <<"(">> \o acc.code \o <<")">>,
               vars |-> v.set, err |-> NoError])

\* ", ".join(repr(d) for d in dots)
ReprArgs(dots) == Join([i \in 1..Len(dots) |-> Repr(dots[i])], <<", ">>)

\* The `elif "." in expr` branch, given the compiled first segment.
DotCode(base, dots) ==
  IF ~base.ok THEN base
  ELSE [base EXCEPT !.code =
          <<"do_dots(">> \o base.code \o <<", ">> \o ReprArgs(dots) \o <<")">>]

\* The `else` branch: a bare name.
NameCode(expr, all_vars) ==
  LET v == _variable(expr, all_vars) IN
  [ok |-> v.ok, code |-> IF v.ok THEN <<"c_">> \o expr ELSE <<>>,
   vars |-> v.set, err |-> v.err]

HasChar(s, c) == \E i \in 1..Len(s) : s[i] = c

RECURSIVE _expr_code(_, _)
\* _expr_code(expr) with self.all_vars = all_vars: [ok, code, vars, err],
\* vars being self.all_vars afterwards.
_expr_code(expr, all_vars) ==
  IF HasChar(expr, "|")
  THEN LET pipes == SplitOn(expr, "|")
       IN ApplyFilters(Tail(pipes), _expr_code(pipes[1], all_vars))
  ELSE IF HasChar(expr, ".")
  THEN LET dots == SplitOn(expr, ".")
       IN DotCode(_expr_code(dots[1], all_vars), Tail(dots))
  ELSE NameCode(expr, all_vars)

(* ------------------------------- tokens ------------------------------- *)

Comment(body) == <<"{", "#">> \o body \o <<"#", "}">>

Expr(body) == <<"{", "{">> \o body \o <<"}", "}">>

Tag(body) == <<"{", "%">> \o body \o <<"%", "}">>

kw_if == <<"i", "f">>

kw_for == <<"f", "o", "r">>

kw_in == <<"i", "n">>

kw_end == <<"e", "n", "d">>

sp == <<" ">>

\* Literal text between two markers (re.split gives "" between adjacent
\* markers and at either end).
Literals == {<<>>, <<"x">>}

Comments == {Comment(<<"x">>)}

Expressions ==
  { Expr(sp \o <<"x">> \o sp),
    Expr(<<"a", ".", "b", "|", "f">>),
    Expr(<<"1">>) }

Tags ==
  { Tag(sp \o kw_if \o sp \o <<"a">> \o sp),
    Tag(kw_if),
    Tag(kw_if \o sp \o <<"a">> \o sp \o <<"b">>),
    Tag(sp \o kw_for \o sp \o <<"x">> \o sp \o kw_in \o sp \o <<"a">> \o sp),
    Tag(kw_for \o sp \o <<"x">> \o sp \o <<"o", "f">> \o sp \o <<"a">>),
    Tag(kw_for \o sp \o <<"x">> \o sp \o kw_in),
    Tag(kw_for \o sp \o <<"1">> \o sp \o kw_in \o sp \o <<"a">>),
    Tag(sp \o kw_end \o kw_if \o sp),
    Tag(kw_end \o kw_for),
    Tag(kw_end),
    Tag(kw_end \o kw_if \o sp \o <<"x">>),
    Tag(<<"e", "l", "s", "e">>),
    Tag(sp) }

Markers == Comments \cup Expressions \cup Tags

\* token[2:-2]
Inner(token) == SubSeq(token, 3, Len(token) - 2)

(* ------------------------------- state -------------------------------- *)

VARIABLES
  pc,          \* where the operation in progress stands
  args,        \* the context mappings given to Template(text, *contexts)
  context,     \* self.context
  all_vars,    \* self.all_vars
  loop_vars,   \* self.loop_vars
  builders,    \* the heap of CodeBuilders: 1 is `code`, 2 is `vars_code`
  buffered,    \* the list `buffered`
  ops_stack,   \* the list `ops_stack`, top last
  tokens,      \* the tokens of re.split consumed so far
  stdout,      \* what print() has written
  err,         \* the exception that ended construction, or NoError
  render_fn,   \* self._render_function: the source text bound, or <<>>
  calls,       \* the calls made to self._render_function
  log,         \* operations applied to a CodeBuilder tree on its own
  expr,        \* the text given to _expr_code on its own
  compiled     \* what _expr_code made of it

vars == <<pc, args, context, all_vars, loop_vars, builders, buffered,
          ops_stack, tokens, stdout, err, render_fn, calls, log, expr,
          compiled>>

\* Ids of the two builders of a compile.
code == 1

vars_code == 2

(* ----------------------------- dictionaries --------------------------- *)

Keys == {"a", "f"}

Values == {1, 2}

\* A dict is a function from its keys.
EmptyDict == [k \in {} |-> 0]

Dicts == UNION {[D -> Values] : D \in SUBSET Keys}

\* update keeping the value already there on key collision.
Update_BaseWins(d, other) ==
  [k \in DOMAIN d \cup DOMAIN other |->
     IF k \in DOMAIN d THEN d[k] ELSE other[k]]

\* d.update(other): other wins on key collision.
Update(d, other) ==
  [k \in DOMAIN d \cup DOMAIN other |->
     IF k \in DOMAIN other THEN other[k] ELSE d[k]]

RECURSIVE MergeAll(_, _)
\* for context in contexts: self.context.update(context)
MergeAll(d, contexts) ==
  IF contexts = <<>> THEN d
  ELSE MergeAll(Update(d, contexts[1]), Tail(contexts))

(* ------------------------------ compile ------------------------------- *)

\* flush_output emitting buffered[0] alone whatever the buffer holds.
flush_output_FirstOnly(h, buf) ==
  IF Len(buf) >= 1
  THEN add_line(h, code, <<"append_result(">> \o buf[1] \o <<")">>)
  ELSE h

\* flush_output(): the heap afterwards (the caller empties `buffered`).
flush_output(h, buf) ==
  IF Len(buf) = 1
  THEN add_line(h, code, <<"append_result(">> \o buf[1] \o <<")">>)
  ELSE IF Len(buf) > 1
  THEN add_line(h, code,
                <<"extend_result([">> \o Join(buf, <<", ">>) \o <<"])">>)
  ELSE h

\* The builders after lines 51-58.  Line 53 reads the attribute
\* `code.indent` and does not call it: the indent level stays 0.
Prologue ==
  LET h0 == <<NewBuilder(0)>>
      h1 == add_line(h0, code,
                     <<"def render_function(context, do_dots):">>)
      h2 == add_section(h1, code)
      h3 == add_line(h2, code, <<"result = []">>)
      h4 == add_line(h3, code, <<"append_result = result.append">>)
      h5 == add_line(h4, code, <<"extend_result = result.extend">>)
  IN add_line(h5, code, <<"to_str = str">>)

\* The constructor's arguments the model tries.
ContextArgs ==
  { <<>>,
    <<[k \in {"a"} |-> 1], [k \in {"a", "f"} |-> 2]>> }

InitCompile ==
  /\ pc = "new"
  /\ args \in ContextArgs
  /\ context = EmptyDict
  /\ all_vars = {}
  /\ loop_vars = {}
  /\ builders = <<>>
  /\ buffered = <<>>
  /\ ops_stack = <<>>
  /\ tokens = <<>>
  /\ stdout = <<>>
  /\ err = NoError
  /\ render_fn = <<>>
  /\ calls = <<>>
  /\ log = <<>>
  /\ expr = <<>>
  /\ compiled = NoResult

\* Lines 44-70: the context is merged, the accumulator gets its prologue,
\* the text is split.
Begin ==
  /\ pc = "new"
  /\ pc' = "loop"
  /\ context' = MergeAll(EmptyDict, args)
  /\ builders' = Prologue
  /\ UNCHANGED <<args, all_vars, loop_vars, buffered, ops_stack, tokens,
                 stdout, err, render_fn, calls, log, expr,
                   compiled>>

\* re.split with one capturing group gives literal, marker, literal, ...:
\* the tokens at even (0-based) positions are the literals.
NextIsLiteral == Len(tokens) % 2 = 0

MoreTokens == Len(tokens) < 2 * MaxMarkers + 1

\* The loop is at a token of the given set.
AtToken(t, S) ==
  /\ pc = "loop"
  /\ MoreTokens
  /\ t \in S
  /\ tokens' = Append(tokens, t)

\* An error noted while the token loop goes on to the next token.
Raise_Swallowed(e) == pc' = pc /\ err' = e

Raise(e) == pc' = "failed" /\ err' = e

\* A comment taken for text: its source is scheduled as a fragment.
CommentToken_AsLiteral ==
  \E t \in Comments :
    /\ ~NextIsLiteral
    /\ AtToken(t, Comments)
    /\ StartsWith(t, <<"{", "#">>)
    /\ buffered' = Append(buffered, Repr(t))
    /\ UNCHANGED <<pc, args, context, all_vars, loop_vars, builders,
                   ops_stack, stdout, err, render_fn, calls, log, expr,
                   compiled>>

\* Lines 72-74: a comment.
CommentToken ==
  \E t \in Comments :
    /\ ~NextIsLiteral
    /\ AtToken(t, Comments)
    /\ StartsWith(t, <<"{", "#">>)
    /\ UNCHANGED <<pc, args, context, all_vars, loop_vars, builders,
                   buffered, ops_stack, stdout, err, render_fn, calls, log, expr,
                   compiled>>

\* Lines 75-78: an expression.
ExpressionToken ==
  \E t \in Expressions :
    /\ ~NextIsLiteral
    /\ AtToken(t, Expressions)
    /\ StartsWith(t, <<"{", "{">>)
    /\ LET e == _expr_code(Strip(Inner(t)), all_vars) IN
       /\ all_vars' = e.vars
       /\ IF e.ok
          THEN /\ buffered' = Append(buffered,
                                     <<"to_str(">> \o e.code \o <<")">>)
               /\ UNCHANGED <<pc, err>>
          ELSE /\ Raise(e.err)
               /\ UNCHANGED buffered
    /\ UNCHANGED <<args, context, loop_vars, builders, ops_stack, stdout,
                   render_fn, calls, log, expr,
                   compiled>>

\* Lines 117-120: literal text.
LiteralToken ==
  \E t \in Literals :
    /\ NextIsLiteral
    /\ AtToken(t, Literals)
    /\ buffered' = IF t # <<>> THEN Append(buffered, Repr(t)) ELSE buffered
    /\ UNCHANGED <<pc, args, context, all_vars, loop_vars, builders,
                   ops_stack, stdout, err, render_fn, calls, log, expr,
                   compiled>>

\* Line 85 written as `len(words) < 2`.
IfArityOk_AtLeast(words) == Len(words) >= 2

\* Line 85: the if tag has its two words.
IfArityOk(words) == Len(words) = 2

\* Line 92: the for tag has its four words, the third being `in`.
ForArityOk(words) == Len(words) = 4 /\ words[3] = kw_in

\* Line 105: the end tag is one word.
EndArityOk(words) == Len(words) = 1

\* Line 111 without the comparison of kinds.
EndMatches_Any(start_what, end_what) == TRUE

\* Line 111: the popped kind is the kind the end tag names.
EndMatches(start_what, end_what) == start_what = end_what

\* Line 121: blocks are still open when the tokens run out.
StackOpen(stack) == stack # <<>>

\* words = token[2:-2].strip().split()
Words(t) == SplitWords(Strip(Inner(t)))

\* Line 116: print(code), after a tag that raised nothing.
Printed(h) == Append(stdout, Str(h, code))

\* The loop is at a tag token; line 81 flushes the buffer.
AtTag(t) ==
  /\ ~NextIsLiteral
  /\ AtToken(t, Tags)
  /\ StartsWith(t, <<"{", "%">>)
  /\ buffered' = <<>>

\* Lines 83-89: an if tag.
IfTag ==
  \E t \in Tags :
    /\ AtTag(t)
    /\ Words(t) # <<>> /\ Words(t)[1] = kw_if
    /\ LET words == Words(t)
           h == flush_output(builders, buffered)
       IN IF ~IfArityOk(words)
          THEN /\ Raise(_syntax_error("Invalid If Statement", t))
               /\ builders' = h
               /\ UNCHANGED <<all_vars, ops_stack, stdout>>
          ELSE LET e == _expr_code(words[2], all_vars) IN
               /\ ops_stack' = Append(ops_stack, kw_if)
               /\ all_vars' = e.vars
               /\ IF e.ok
                  THEN LET h2 == indent(add_line(h, code,
                                   <<"if ">> \o e.code \o <<":">>), code)
                       IN /\ builders' = h2
                          /\ stdout' = Printed(h2)
                          /\ UNCHANGED <<pc, err>>
                  ELSE /\ Raise(e.err)
                       /\ builders' = h
                       /\ UNCHANGED stdout
    /\ UNCHANGED <<args, context, loop_vars, render_fn, calls, log, expr,
                   compiled>>

\* Lines 90-102: a for tag.
ForTag ==
  \E t \in Tags :
    /\ AtTag(t)
    /\ Words(t) # <<>> /\ Words(t)[1] = kw_for
    /\ LET words == Words(t)
           h == flush_output(builders, buffered)
       IN IF ~ForArityOk(words)
          THEN /\ Raise(_syntax_error("Invalid For Loop", t))
               /\ builders' = h
               /\ UNCHANGED <<all_vars, loop_vars, ops_stack, stdout>>
          ELSE LET v == _variable(words[2], loop_vars) IN
               /\ ops_stack' = Append(ops_stack, kw_for)
               /\ loop_vars' = v.set
               /\ IF ~v.ok
                  THEN /\ Raise(v.err)
                       /\ builders' = h
                       /\ UNCHANGED <<all_vars, stdout>>
                  ELSE LET e == _expr_code(words[4], all_vars) IN
                       /\ all_vars' = e.vars
                       /\ IF e.ok
                          THEN LET h2 == indent(add_line(h, code,
                                           <<"for c_">> \o words[2] \o <<" in ">>
                                           \o e.code \o <<":">>), code)
                               IN /\ builders' = h2
                                  /\ stdout' = Printed(h2)
                                  /\ UNCHANGED <<pc, err>>
                          ELSE /\ Raise(e.err)
                               /\ builders' = h
                               /\ UNCHANGED stdout
    /\ UNCHANGED <<args, context, render_fn, calls, log, expr,
                   compiled>>

\* Lines 103-113: an end tag.
EndTag ==
  \E t \in Tags :
    /\ AtTag(t)
    /\ Words(t) # <<>> /\ Words(t)[1] # kw_if /\ Words(t)[1] # kw_for
    /\ StartsWith(Words(t)[1], kw_end)
    /\ LET words == Words(t)
           h == flush_output(builders, buffered)
           end_what == SubSeq(words[1], 4, Len(words[1]))
       IN IF ~EndArityOk(words)
          THEN /\ Raise(_syntax_error("Invalid end", t))
               /\ builders' = h
               /\ UNCHANGED <<ops_stack, stdout>>
          ELSE IF ops_stack = <<>>
          THEN /\ Raise(_syntax_error("Unmatched end", t))
               /\ builders' = h
               /\ UNCHANGED <<ops_stack, stdout>>
          ELSE LET start_what == ops_stack[Len(ops_stack)] IN
               /\ ops_stack' = SubSeq(ops_stack, 1, Len(ops_stack) - 1)
               /\ IF ~EndMatches(start_what, end_what)
                  THEN /\ Raise(_syntax_error("Mismatched end", end_what))
                       /\ builders' = h
                       /\ UNCHANGED stdout
                  ELSE LET h2 == dedent(h, code) IN
                       /\ builders' = h2
                       /\ stdout' = Printed(h2)
                       /\ UNCHANGED <<pc, err>>
    /\ UNCHANGED <<args, context, all_vars, loop_vars, render_fn, calls, log, expr,
                   compiled>>

\* Lines 114-115: any other first word.
OtherTag ==
  \E t \in Tags :
    /\ AtTag(t)
    /\ Words(t) # <<>> /\ Words(t)[1] # kw_if /\ Words(t)[1] # kw_for
    /\ ~StartsWith(Words(t)[1], kw_end)
    /\ Raise(_syntax_error("Invalid tag", Words(t)[1]))
    /\ builders' = flush_output(builders, buffered)
    /\ UNCHANGED <<args, context, all_vars, loop_vars, ops_stack, stdout,
                   render_fn, calls, log, expr,
                   compiled>>

\* Line 83 on a tag with no words: words[0] raises IndexError.
EmptyTag ==
  \E t \in Tags :
    /\ AtTag(t)
    /\ Words(t) = <<>>
    /\ Raise(IndexError)
    /\ builders' = flush_output(builders, buffered)
    /\ UNCHANGED <<args, context, all_vars, loop_vars, ops_stack, stdout,
                   render_fn, calls, log, expr,
                   compiled>>

\* Lines 121-123: the token list is exhausted.
EndOfTokens ==
  /\ pc = "loop"
  /\ ~NextIsLiteral
  /\ IF StackOpen(ops_stack)
     THEN /\ Raise(_syntax_error("Unmatched tag", ops_stack[Len(ops_stack)]))
          /\ UNCHANGED <<builders, buffered>>
     ELSE /\ pc' = "flushed"
          /\ builders' = flush_output(builders, buffered)
          /\ buffered' = <<>>
          /\ UNCHANGED err
  /\ UNCHANGED <<args, context, all_vars, loop_vars, ops_stack, tokens,
                 stdout, render_fn, calls, log, expr,
                   compiled>>

RECURSIVE Orders(_)
\* The orders in which iterating a set can give its elements.
Orders(S) ==
  IF S = {} THEN {<<>>}
  ELSE UNION {{<<x>> \o o : o \in Orders(S \ {x})} : x \in S}

RECURSIVE AddLookups(_, _)
\* vars_code.add_line("c_%s = context[%r]" % (var_name, var_name)), in turn.
AddLookups(h, names) ==
  IF names = <<>> THEN h
  ELSE AddLookups(
         add_line(h, vars_code,
                  <<"c_">> \o names[1] \o <<" = context[">> \o Repr(names[1])
                  \o <<"]">>),
         Tail(names))

\* Lines 125-128: the context lookups, the return line, the last dedent.
Epilogue ==
  /\ pc = "flushed"
  /\ pc' = "built"
  /\ \E order \in Orders(all_vars \ loop_vars) :
       builders' = dedent(add_line(AddLookups(builders, order), code,
                                   <<"return ''.join(result)">>), code)
  /\ UNCHANGED <<args, context, all_vars, loop_vars, buffered, ops_stack,
                 tokens, stdout, err, render_fn, calls, log, expr,
                   compiled>>

\* exec() accepts the text: the def line at column 0, its body indented.
ValidSource(src) ==
  /\ src # <<>>
  /\ src[1].pad = 0
  /\ Len(src) > 1
  /\ \A i \in 2..Len(src) : src[i].pad > 0

\* Line 130 with get_globals (lines 33-39).
GetGlobals ==
  /\ pc = "built"
  /\ IF builders[code].indent_level # 0
     THEN Raise(AssertionError) /\ UNCHANGED render_fn
     ELSE IF ~ValidSource(Str(builders, code))
     THEN Raise(IndentationError) /\ UNCHANGED render_fn
     ELSE pc' = "ready" /\ render_fn' = Str(builders, code) /\ UNCHANGED err
  /\ UNCHANGED <<args, context, all_vars, loop_vars, builders, buffered,
                 ops_stack, tokens, stdout, calls, log, expr, compiled>>

Next ==
  \/ Begin
  \/ CommentToken
  \/ ExpressionToken
  \/ LiteralToken
  \/ IfTag
  \/ ForTag
  \/ EndTag
  \/ OtherTag
  \/ EmptyTag
  \/ EndOfTokens
  \/ Epilogue
  \/ GetGlobals

Spec == InitCompile /\ [][Next]_vars

(* ------------------- reading a template's structure ------------------- *)
(* What the properties below say about a token list, computed from the     *)
(* tokens alone and not from the compiler's state.                         *)

IsComment(t) == StartsWith(t, <<"{", "#">>)

IsExpression(t) == StartsWith(t, <<"{", "{">>)

IsTag(t) == StartsWith(t, <<"{", "%">>)

IsLiteral(t) == ~IsComment(t) /\ ~IsExpression(t) /\ ~IsTag(t)

FirstWordIs(t, w) == IsTag(t) /\ Words(t) # <<>> /\ Words(t)[1] = w

IsIfTag(t) == FirstWordIs(t, kw_if)

IsForTag(t) == FirstWordIs(t, kw_for)

IsEndTag(t) ==
  /\ IsTag(t) /\ Words(t) # <<>>
  /\ ~IsIfTag(t) /\ ~IsForTag(t)
  /\ StartsWith(Words(t)[1], kw_end)

\* The <kind> of an end<kind> tag.
EndKind(t) == SubSeq(Words(t)[1], 4, Len(Words(t)[1]))

\* v.b|f|g: a name, then dotted steps, then filter names.
ExprOk(e) ==
  LET pieces == SplitOn(e, "|")
  IN /\ IsIdent(SplitOn(pieces[1], ".")[1])
     /\ \A i \in 2..Len(pieces) : IsIdent(pieces[i])

\* A tag that is well formed on its own.
TagOk(t) ==
  LET w == Words(t) IN
  \/ IsIfTag(t) /\ Len(w) = 2 /\ ExprOk(w[2])
  \/ IsForTag(t) /\ Len(w) = 4 /\ w[3] = kw_in /\ IsIdent(w[2]) /\ ExprOk(w[4])
  \/ IsEndTag(t) /\ Len(w) = 1 /\ EndKind(t) \in {kw_if, kw_for}

TokenOk(t) ==
  \/ IsLiteral(t)
  \/ IsComment(t)
  \/ IsExpression(t) /\ ExprOk(Strip(Inner(t)))
  \/ IsTag(t) /\ TagOk(t)

\* The block events of a token list: an if or for opens, an end closes.
BlockEvents(ts) ==
  LET Ev(t) == IF IsEndTag(t) THEN [open |-> FALSE, kind |-> EndKind(t)]
               ELSE [open |-> TRUE, kind |-> Words(t)[1]]
  IN [i \in 1..Len(SelectSeq(ts, LAMBDA t : IsIfTag(t) \/ IsForTag(t) \/ IsEndTag(t)))
        |-> Ev(SelectSeq(ts, LAMBDA t : IsIfTag(t) \/ IsForTag(t) \/ IsEndTag(t))[i])]

RECURSIVE Cancel(_)
\* Delete an opening event directly followed by the end of its own kind,
\* until no such pair is left.
Cancel(ev) ==
  IF \E i \in 1..(Len(ev) - 1) :
       ev[i].open /\ ~ev[i + 1].open /\ ev[i].kind = ev[i + 1].kind
  THEN LET i == CHOOSE j \in 1..(Len(ev) - 1) :
                  ev[j].open /\ ~ev[j + 1].open /\ ev[j].kind = ev[j + 1].kind
       IN Cancel(SubSeq(ev, 1, i - 1) \o SubSeq(ev, i + 2, Len(ev)))
  ELSE ev

\* Every if/for is closed by the matching end tag, in LIFO order.
Balanced(ts) == Cancel(BlockEvents(ts)) = <<>>

\* Every end tag so far closed a block of its kind; blocks may be open.
OpenOnly(ts) == \A i \in 1..Len(Cancel(BlockEvents(ts))) :
                  Cancel(BlockEvents(ts))[i].open

\* The kinds of the blocks still open, innermost last.
OpenKinds(ts) ==
  [i \in 1..Len(Cancel(BlockEvents(ts))) |-> Cancel(BlockEvents(ts))[i].kind]

WellFormed(ts) ==
  /\ Len(ts) % 2 = 1
  /\ \A i \in 1..Len(ts) : TokenOk(ts[i])
  /\ Balanced(ts)

\* The step consumed a token.
Consumed == Len(tokens') = Len(tokens) + 1

\* The token the step consumed.
Current == tokens'[Len(tokens')]

Last(seq) == seq[Len(seq)]

Front(seq) == SubSeq(seq, 1, Len(seq) - 1)

(* ------------------------------- claims ------------------------------- *)

\* C1: a template whose tags are well formed and properly nested and whose
\* names are identifiers is compiled to the end: construction does not
\* fail, and when the accumulator is turned into code its indent level is
\* back to zero.
C1_WellFormedConstructs ==
  WellFormed(tokens) =>
    /\ pc # "failed"
    /\ pc = "built" => builders[code].indent_level = 0

\* C2: an end<kind> tag fails construction when the operation stack is
\* empty or its top differs from <kind>; the tag closes a block (one pop,
\* one dedent) only when the top of the stack is <kind>.
C2_EndClosesOnlyItsKind ==
  [][ (pc = "loop" /\ Consumed /\ IsEndTag(Current)) =>
        /\ (ops_stack = <<>> \/ Last(ops_stack) # EndKind(Current))
             => pc' = "failed"
        /\ pc' # "failed" =>
             /\ ops_stack # <<>>
             /\ Last(ops_stack) = EndKind(Current)
             /\ ops_stack' = Front(ops_stack)
             /\ builders'[code].indent_level =
                  builders[code].indent_level - INDENT_STEP ]_vars

\* C2's case: {% if a %}{% for x in a %}{% endif %} has failed at its endif.
C2_Witness ==
  /\ pc = "failed"
  /\ Len(tokens) = 6
  /\ IsIfTag(tokens[2]) /\ IsForTag(tokens[4])
  /\ IsEndTag(tokens[6]) /\ EndKind(tokens[6]) = kw_if

\* C3: when the tokens run out with blocks still open, construction fails
\* with an "Unmatched tag" error naming the innermost open kind; a compile
\* that gets past that check has an empty operation stack, and the tag
\* state machine accepts exactly the balanced, properly nested templates.
C3_UnmatchedTagNamed ==
  /\ (pc = "failed" /\ Len(tokens) % 2 = 1 /\ ops_stack # <<>>) =>
       err.msg = "Unmatched tag" /\ err.thing = Last(ops_stack)
  /\ pc \in {"flushed", "built"} => ops_stack = <<>> /\ Balanced(tokens)

\* The part of C3 that is about the stack alone: while the loop runs the
\* stack holds the kinds of the open blocks, and code generation is reached
\* only by balanced templates and with the stack empty.
StackTracksOpenBlocks ==
  /\ pc = "loop" => OpenOnly(tokens) /\ ops_stack = OpenKinds(tokens)
  /\ pc \in {"flushed", "built"} => ops_stack = <<>> /\ Balanced(tokens)

\* C9: at every point of a compile the indent level of the accumulator is
\* non-negative, the last dedent before code generation included.
C9_IndentNonNegative ==
  \A i \in 1..Len(builders) : builders[i].indent_level >= 0

\* C10: an if tag is accepted only with two words, a for tag only with four
\* words whose third is `in`; otherwise construction fails before the kind
\* is pushed and before a block-opening line is added.
C10_ArityCheckedFirst ==
  [][ (pc = "loop" /\ Consumed /\ (IsIfTag(Current) \/ IsForTag(Current))) =>
        LET w == Words(Current)
            good == IF IsIfTag(Current) THEN Len(w) = 2
                    ELSE Len(w) = 4 /\ w[3] = kw_in
        IN /\ ~good =>
                /\ pc' = "failed"
                /\ ops_stack' = ops_stack
                /\ builders' = flush_output(builders, buffered)
           /\ pc' # "failed" =>
                /\ good
                /\ ops_stack' = Append(ops_stack, w[1])
                /\ Len(builders'[code].code) > Len(builders[code].code) ]_vars

\* C10's case: an if tag of three words has failed with nothing pushed.
C10_Witness ==
  /\ pc = "failed"
  /\ tokens # <<>>
  /\ IsIfTag(Last(tokens)) /\ Len(Words(Last(tokens))) = 3
  /\ ops_stack = <<>>

\* The names an expression reads: its first name and its filters.
RefNames(e) ==
  LET pieces == SplitOn(e, "|")
  IN {SplitOn(pieces[1], ".")[1]} \cup {pieces[i] : i \in 2..Len(pieces)}

\* The names bound by the for blocks open around a position.
Bound(scope) == UNION {scope[i] : i \in 1..Len(scope)}

RECURSIVE Needed(_, _)
\* The names a template reads at a position where no enclosing for block
\* binds them: the names the render routine must take from the context.
\* scope holds, per open block, the names the block binds.
Needed(ts, scope) ==
  IF ts = <<>> THEN {}
  ELSE LET t == ts[1] w == Words(t) IN
       IF IsExpression(t)
       THEN (RefNames(Strip(Inner(t))) \ Bound(scope))
            \cup Needed(Tail(ts), scope)
       ELSE IF IsIfTag(t)
       THEN (RefNames(w[2]) \ Bound(scope))
            \cup Needed(Tail(ts), Append(scope, {}))
       ELSE IF IsForTag(t)
       THEN (RefNames(w[4]) \ Bound(scope))
            \cup Needed(Tail(ts), Append(scope, {w[2]}))
       ELSE IF IsEndTag(t)
       THEN Needed(Tail(ts), Front(scope))
       ELSE Needed(Tail(ts), scope)

\* The name of a lookup line `c_<name> = context['<name>']`.
LookupName(line) ==
  LET k == CHOOSE i \in 1..Len(line) : line[i] = " = context["
  IN SubSeq(line, 2, k - 1)

\* The names the compiler emitted a context lookup for.
EmittedLookups ==
  {LookupName(builders[vars_code].code[i].line) :
     i \in 1..Len(builders[vars_code].code)}

\* C4: the names that get a context lookup are exactly the names the
\* template reads outside every for block binding them, also when a name
\* is a loop variable in one place and a context variable in another.
C4_LookupsAreTheNeededNames ==
  pc = "built" => EmittedLookups = Needed(tokens, <<>>)

\* Elements that open a parenthesis in generated code.
Opening == {"to_str(", "do_dots(", "("}

RECURSIVE SplitTop(_, _, _)
\* The arguments of a generated list: split at the ", " outside parentheses.
SplitTop(s, depth, cur) ==
  IF s = <<>> THEN <<cur>>
  ELSE IF s[1] = ", " /\ depth = 0 THEN <<cur>> \o SplitTop(Tail(s), 0, <<>>)
  ELSE SplitTop(Tail(s),
                IF s[1] \in Opening THEN depth + 1
                ELSE IF s[1] = ")" THEN depth - 1 ELSE depth,
                Append(cur, s[1]))

\* The output fragments an emitted line carries, with the line's padding.
LineFrags(item) ==
  LET inner == SubSeq(item.line, 2, Len(item.line) - 1)
      frags == IF item.kind = "line" /\ item.line[1] = "append_result("
               THEN <<inner>>
               ELSE IF item.kind = "line" /\ item.line[1] = "extend_result(["
               THEN SplitTop(inner, 0, <<>>)
               ELSE <<>>
  IN [i \in 1..Len(frags) |-> [pad |-> item.pad, frag |-> frags[i]]]

RECURSIVE ItemsFrags(_)
ItemsFrags(items) ==
  IF items = <<>> THEN <<>>
  ELSE LineFrags(items[1]) \o ItemsFrags(Tail(items))

\* The fragments still buffered, at the padding a flush would give them.
PendingFrags ==
  [i \in 1..Len(buffered) |->
     [pad |-> Pad(builders[code].indent_level), frag |-> buffered[i]]]

\* The padding of the function body.
BodyPad == Pad(Prologue[code].indent_level)

RECURSIVE OneEmitPerFragment(_, _)
\* One emit per fragment: every non-empty literal and every expression of
\* the template, in template order, at the padding of the block it is in.
OneEmitPerFragment(ts, depth) ==
  IF ts = <<>> THEN <<>>
  ELSE LET t == ts[1]
           here == BodyPad + INDENT_STEP * depth
       IN IF IsExpression(t)
          THEN <<[pad |-> here,
                  frag |-> <<"to_str(">>
                           \o _expr_code(Strip(Inner(t)), {}).code \o <<")">>]>>
               \o OneEmitPerFragment(Tail(ts), depth)
          ELSE IF IsLiteral(t)
          THEN (IF t = <<>> THEN <<>> ELSE <<[pad |-> here, frag |-> Repr(t)]>>)
               \o OneEmitPerFragment(Tail(ts), depth)
          ELSE IF IsIfTag(t) \/ IsForTag(t)
          THEN OneEmitPerFragment(Tail(ts), depth + 1)
          ELSE IF IsEndTag(t)
          THEN OneEmitPerFragment(Tail(ts), depth - 1)
          ELSE OneEmitPerFragment(Tail(ts), depth)

\* C5: the fragments of the emitted append/extend lines, in emission order
\* and followed by those still buffered, are the non-empty literals and the
\* expressions of the template in template order, each once and in the
\* block one emit per fragment would put it in; the buffer is empty after
\* every control tag and when the compile finishes.
C5_CoalescingKeepsFragments ==
  /\ pc \in {"loop", "flushed", "built"} =>
       ItemsFrags(builders[code].code) \o PendingFrags
         = OneEmitPerFragment(tokens, 0)
  /\ (tokens # <<>> /\ IsTag(Last(tokens))) => buffered = <<>>
  /\ pc \in {"flushed", "built"} => buffered = <<>>

\* C5's case: a literal and an expression were coalesced into one extend
\* line inside a block, and the compile has flushed for the last time.
C5_Witness ==
  /\ pc = "flushed"
  /\ \E i \in 1..Len(builders[code].code) :
       /\ builders[code].code[i].kind = "line"
       /\ builders[code].code[i].line[1] = "extend_result(["
       /\ builders[code].code[i].pad > BodyPad

(* ------------------- the accumulator on its own ----------------------- *)
(* A parent CodeBuilder, the sections obtained from it with add_section,   *)
(* and any interleaving of add_line/indent/dedent/add_section on the       *)
(* parent with add_line on the sections.                                   *)

parent == 1

\* The line the next operation adds: lines differ so that positions show.
FreshLine == <<ToString(Len(log) + 1)>>

LogEntry(op, target, line, made) ==
  [op |-> op, target |-> target, line |-> line, made |-> made]

InitCB ==
  /\ pc = "cb"
  /\ builders = <<NewBuilder(0)>>
  /\ log = <<>>
  /\ args = <<>>
  /\ context = EmptyDict
  /\ all_vars = {}
  /\ loop_vars = {}
  /\ buffered = <<>>
  /\ ops_stack = <<>>
  /\ tokens = <<>>
  /\ stdout = <<>>
  /\ err = NoError
  /\ render_fn = <<>>
  /\ calls = <<>>
  /\ expr = <<>>
  /\ compiled = NoResult

CBFrame == UNCHANGED <<pc, args, context, all_vars, loop_vars, buffered,
                       ops_stack, tokens, stdout, err, render_fn, calls,
                       expr, compiled>>

MoreOps == pc = "cb" /\ Len(log) < MaxOps

ParentAddLine ==
  /\ MoreOps
  /\ builders' = add_line(builders, parent, FreshLine)
  /\ log' = Append(log, LogEntry("add_line", parent, FreshLine, 0))
  /\ CBFrame

ParentIndent ==
  /\ MoreOps
  /\ builders' = indent(builders, parent)
  /\ log' = Append(log, LogEntry("indent", parent, <<>>, 0))
  /\ CBFrame

ParentDedent ==
  /\ MoreOps
  /\ builders' = dedent(builders, parent)
  /\ log' = Append(log, LogEntry("dedent", parent, <<>>, 0))
  /\ CBFrame

ParentAddSection ==
  /\ MoreOps
  /\ builders' = add_section(builders, parent)
  /\ log' = Append(log, LogEntry("add_section", parent, <<>>,
                                 SectionId(builders)))
  /\ CBFrame

SectionAddLine ==
  \E s \in 2..Len(builders) :
    /\ MoreOps
    /\ builders' = add_line(builders, s, FreshLine)
    /\ log' = Append(log, LogEntry("add_line", s, FreshLine, 0))
    /\ CBFrame

NextCB ==
  \/ ParentAddLine
  \/ ParentIndent
  \/ ParentDedent
  \/ ParentAddSection
  \/ SectionAddLine

SpecCB == InitCB /\ [][NextCB]_vars

\* The lines the log says were added to builder s, each at padding p.
LinesAddedTo(s, p) ==
  LET ops == SelectSeq(log, LAMBDA e : e.op = "add_line" /\ e.target = s)
  IN [i \in 1..Len(ops) |-> [pad |-> p, line |-> ops[i].line]]

RECURSIVE SplicedText(_, _)
\* The text the operations logged must serialize to: the parent's lines in
\* the order added, each at the padding of the indent level it was added
\* at, and at the place of every add_section all the lines ever added to
\* that section, at the padding of the parent's level at that place.
SplicedText(ops, level) ==
  IF ops = <<>> THEN <<>>
  ELSE LET e == ops[1] IN
       IF e.target # parent THEN SplicedText(Tail(ops), level)
       ELSE IF e.op = "add_line"
       THEN <<[pad |-> Pad(level), line |-> e.line]>>
            \o SplicedText(Tail(ops), level)
       ELSE IF e.op = "add_section"
       THEN LinesAddedTo(e.made, Pad(level)) \o SplicedText(Tail(ops), level)
       ELSE IF e.op = "indent"
       THEN SplicedText(Tail(ops), level + INDENT_STEP)
       ELSE SplicedText(Tail(ops), level - INDENT_STEP)

\* The lines held by a builder's own list, sections left out.
OwnLines(b) ==
  LET ls == SelectSeq(b.code, LAMBDA it : it.kind = "line")
  IN [i \in 1..Len(ls) |-> ls[i].line]

\* The number of logged operations of a kind on the parent.
CountOps(op) ==
  Len(SelectSeq(log, LAMBDA e : e.op = op /\ e.target = parent))

\* C6: whatever the interleaving, a section holds exactly the lines added
\* to it, the parent's own lines and indent level are those of the
\* operations applied to the parent, and the serialized text has every
\* section's lines at the place the section was inserted.
C6_SectionsSplicedInPlace ==
  pc = "cb" =>
    /\ Str(builders, parent) = SplicedText(log, 0)
    /\ \A s \in 2..Len(builders) :
         OwnLines(builders[s]) =
           [i \in 1..Len(LinesAddedTo(s, 0)) |-> LinesAddedTo(s, 0)[i].line]
    /\ OwnLines(builders[parent]) =
         [i \in 1..Len(LinesAddedTo(parent, 0)) |->
            LinesAddedTo(parent, 0)[i].line]
    /\ builders[parent].indent_level =
         INDENT_STEP * (CountOps("indent") - CountOps("dedent"))

\* C6's case: a section created after a parent line got a line after the
\* parent had gone on (an indent and another line).
C6_Witness ==
  /\ pc = "cb"
  /\ Len(log) = 5
  /\ log[1].op = "add_line" /\ log[1].target = parent
  /\ log[2].op = "add_section"
  /\ log[3].op = "indent"
  /\ log[4].op = "add_line" /\ log[4].target = parent
  /\ log[5].op = "add_line" /\ log[5].target = 2
  /\ Str(builders, parent)[2].line = log[5].line

\* In the compiler, every context-lookup line stands right after the def
\* line, before every line of the template body.
LookupsBeforeBody ==
  pc = "built" =>
    LET text == Str(builders, code)
        n == Len(builders[vars_code].code)
    IN \A i \in 1..Len(text) :
         (\E j \in 1..Len(text[i].line) : text[i].line[j] = " = context[")
           <=> (2 <= i /\ i <= n + 1)

(* ---------------- the expression compiler on its own ------------------ *)

ExprChars == {"a", "b", "c", "1", "|", "."}

RECURSIVE Texts(_)
\* The strings over ExprChars of length at most n.
Texts(n) ==
  IF n = 0 THEN {<<>>}
  ELSE Texts(n - 1) \cup
       {Append(t, ch) : t \in {u \in Texts(n - 1) : Len(u) = n - 1},
                        ch \in ExprChars}

InitExpr ==
  /\ pc = "expr"
  /\ expr \in Texts(MaxExprLen)
  /\ compiled = NoResult
  /\ builders = <<>>
  /\ log = <<>>
  /\ args = <<>>
  /\ context = EmptyDict
  /\ all_vars = {}
  /\ loop_vars = {}
  /\ buffered = <<>>
  /\ ops_stack = <<>>
  /\ tokens = <<>>
  /\ stdout = <<>>
  /\ err = NoError
  /\ render_fn = <<>>
  /\ calls = <<>>

\* self._expr_code(expr) on a Template whose all_vars is empty.
CompileExpr ==
  /\ pc = "expr"
  /\ pc' = "compiled"
  /\ compiled' = _expr_code(expr, all_vars)
  /\ all_vars' = compiled'.vars
  /\ UNCHANGED <<args, context, loop_vars, builders, buffered, ops_stack,
                 tokens, stdout, err, render_fn, calls, log, expr>>

NextExpr == CompileExpr

SpecExpr == InitExpr /\ [][NextExpr]_vars

\* The last position of character ch in s.
LastIndex(s, ch) ==
  CHOOSE i \in 1..Len(s) : s[i] = ch /\ \A j \in (i + 1)..Len(s) : s[j] # ch

RECURSIVE Applied(_)
\* What an expression means: e|f is f applied to e; a pipe-free a.b.c is
\* do_dots on a with 'b', 'c'; a bare name is itself.
Applied(e) ==
  IF HasChar(e, "|")
  THEN LET k == LastIndex(e, "|")
       IN <<"c_">> \o SubSeq(e, k + 1, Len(e)) \o <<"(">>
          \o Applied(SubSeq(e, 1, k - 1)) \o <<")">>
  ELSE IF HasChar(e, ".")
  THEN LET segs == SplitOn(e, ".")
       IN <<"do_dots(", "c_">> \o segs[1] \o <<", ">>
          \o Join([i \in 1..(Len(segs) - 1) |-> Repr(segs[i + 1])], <<", ">>)
          \o <<")">>
  ELSE <<"c_">> \o e

\* C7: filters apply left to right and pipes split before dots: the code
\* compiled for v|f1|...|fn is fn(...f1(code of v)...), with a dotted v
\* compiled by do_dots, and every filter name is registered in all_vars.
C7_PipesThenDots ==
  (pc = "compiled" /\ compiled.ok) =>
    /\ compiled.code = Applied(expr)
    /\ compiled.vars = RefNames(expr)
    /\ all_vars = compiled.vars

\* C7's case: a.b|c was compiled to c(do_dots(a, 'b')).
C7_Witness ==
  /\ pc = "compiled"
  /\ expr = <<"a", ".", "b", "|", "c">>
  /\ compiled.ok
  /\ compiled.code = <<"c_", "c", "(", "do_dots(", "c_", "a", ", ",
                       "'", "b", "'", ")", ")">>
  /\ compiled.vars = {<<"a">>, <<"c">>}

(* --------------------------- render on its own ------------------------ *)
(* A Template on which line 130 has bound a render routine, and calls of   *)
(* render on it.                                                           *)

\* render's argument: None, or a dict.
Overrides ==
  {[none |-> TRUE, dict |-> EmptyDict]}
  \cup {[none |-> FALSE, dict |-> d] : d \in Dicts}

InitRender ==
  /\ pc = "new"
  /\ args \in {<<>>} \cup {<<d>> : d \in Dicts}
              \cup {<<d, e>> : d \in Dicts, e \in Dicts}
  /\ context = EmptyDict
  /\ calls = <<>>
  /\ render_fn = <<>>
  /\ builders = <<>>
  /\ log = <<>>
  /\ all_vars = {}
  /\ loop_vars = {}
  /\ buffered = <<>>
  /\ ops_stack = <<>>
  /\ tokens = <<>>
  /\ stdout = <<>>
  /\ err = NoError
  /\ expr = <<>>
  /\ compiled = NoResult

\* Lines 44-46, and the compile pass taken as having bound a routine.
Construct ==
  /\ pc = "new"
  /\ pc' = "ready"
  /\ context' = MergeAll(EmptyDict, args)
  /\ render_fn' = <<"render_function">>
  /\ UNCHANGED <<args, all_vars, loop_vars, builders, buffered, ops_stack,
                 tokens, stdout, err, calls, log, expr, compiled>>

\* `if context:` is false for None and for an empty dict.
Truthy(o) == ~o.none /\ DOMAIN o.dict # {}

\* Lines 162-164: the mapping render passes to the routine.
render_context(base, o) ==
  IF Truthy(o) THEN Update(base, o.dict) ELSE base

\* Lines 160-165: render(context).
Render ==
  \E o \in Overrides :
    /\ pc = "ready"
    /\ Len(calls) < MaxRenders
    /\ calls' = Append(calls, [override |-> o,
                               passed |-> render_context(context, o)])
    /\ UNCHANGED <<pc, args, context, all_vars, loop_vars, builders,
                   buffered, ops_stack, tokens, stdout, err, render_fn, log,
                   expr, compiled>>

NextRender == Construct \/ Render

SpecRender == InitRender /\ [][NextRender]_vars

\* d maps exactly the keys of a and b, with b's value where b has the key.
Layers(d, a, b) ==
  /\ DOMAIN d = DOMAIN a \cup DOMAIN b
  /\ \A k \in DOMAIN d : d[k] = IF k \in DOMAIN b THEN b[k] ELSE a[k]

\* d is the left-to-right merge of the mappings: each key has the value
\* of the last mapping that holds it.
IsMergeOf(d, maps) ==
  /\ DOMAIN d = UNION {DOMAIN maps[i] : i \in 1..Len(maps)}
  /\ \A k \in DOMAIN d :
       \E i \in 1..Len(maps) :
         /\ k \in DOMAIN maps[i] /\ d[k] = maps[i][k]
         /\ \A j \in (i + 1)..Len(maps) : k \notin DOMAIN maps[j]

FailedAtToken == pc = "failed" /\ Len(tokens) % 2 = 0 /\ tokens # <<>>

\* A violation of a tag's or a name's form: the arity of an if or for tag,
\* a name that is no identifier, an unknown keyword.
SyntaxViolation ==
  /\ FailedAtToken
  /\ \/ IsExpression(Last(tokens))
     \/ IsIfTag(Last(tokens))
     \/ IsForTag(Last(tokens))
     \/ /\ IsTag(Last(tokens)) /\ Words(Last(tokens)) # <<>>
        /\ ~IsEndTag(Last(tokens))

\* A violation of nesting: an end tag with nothing open or with another
\* kind open, or a block still open when the tokens ran out.
NestingViolation ==
  \/ /\ FailedAtToken
     /\ IsEndTag(Last(tokens)) /\ Len(Words(Last(tokens))) = 1
  \/ pc = "failed" /\ Len(tokens) % 2 = 1 /\ ops_stack # <<>>

\* C11: a syntax violation is reported as a SyntaxError and a nesting
\* violation as a NestingError, two distinct kinds.
C11_TwoErrorKinds ==
  /\ SyntaxViolation => err.type = "SyntaxError"
  /\ NestingViolation => err.type = "NestingError"

\* The kinds the code gives the two classes of violation are one and the
\* same: every violation goes through _syntax_error.
OneErrorKind ==
  (SyntaxViolation \/ NestingViolation) =>
    err = _syntax_error("Unmatched tag", <<>>)

(* ------------------------- errors abort construction ------------------ *)

\* C12: an error raised at any token ends construction: the constructor
\* takes no further step, the render routine is not bound, and the state
\* the failed token left behind belongs to no usable Template.
C12_ErrorAbortsConstruction ==
  err # NoError =>
    /\ pc = "failed"
    /\ render_fn = <<>>
    /\ ~ENABLED Next

\* A for tag whose variable is no identifier: its kind is already on the
\* stack when the error is raised.
C12_Witness ==
  /\ FailedAtToken
  /\ IsForTag(Last(tokens))
  /\ ForArityOk(Words(Last(tokens)))
  /\ ~IsIdent(Words(Last(tokens))[2])
  /\ ops_stack = Append(OpenKinds(Front(tokens)), kw_for)
  /\ render_fn = <<>>

(* --------------------------- missing variables ------------------------ *)

\* The exception types that are LookupErrors.
LookupErrors == {"LookupError", "KeyError", "IndexError"}

\* The context holds the name as a key.
InContext(ctx, name) == Len(name) = 1 /\ name[1] \in DOMAIN ctx

\* The names the routine looks up that the context does not hold.
MissingNames == {n \in all_vars \ loop_vars : ~InContext(context, n)}

\* The token loop and the code generation went through without an error
\* and the run of Template(text, *contexts).render() has ended.
RanToTheEnd ==
  /\ pc \in {"ready", "failed"}
  /\ Len(tokens) % 2 = 1
  /\ ops_stack = <<>>

\* C13: rendering a template that compiled without a syntax or nesting
\* error and refers to a name the context does not hold fails with a
\* LookupError; with every name held, no LookupError comes of a name.
C13_MissingNameIsLookupError ==
  RanToTheEnd =>
    /\ MissingNames # {} => err.type \in LookupErrors
    /\ MissingNames = {} => err.type \notin LookupErrors

\* What the run ends in instead, whatever the context holds.
AlwaysAssertionError == RanToTheEnd => err = AssertionError

(* ------------------------------ _do_dots ------------------------------ *)

\* The longest sequence of dots a call is given.
MaxDots == 3

\* The dots a call is given are drawn from these names.
DotNames == {"x", "y"}

\* No attribute, no item.
Nothing == [n \in {} |-> 0]

\* The values a call meets, by identity.  attrs: what getattr finds;
\* subscript: how value[dot] behaves ("none": not subscriptable,
\* "mapping": by key, "sequence": by integer index only); items: the keys
\* held; callable and result: whether value() can be made and what it gives.
Objects ==
  << \* 1: a number
     [attrs |-> Nothing, subscript |-> "none", items |-> Nothing,
      callable |-> FALSE, result |-> 0],
     \* 2: a dict {x: 1, y: <4>}
     [attrs |-> Nothing, subscript |-> "mapping",
      items |-> [n \in {"x", "y"} |-> IF n = "x" THEN 1 ELSE 4],
      callable |-> FALSE, result |-> 0],
     \* 3: an object with the attributes x = <2> and y = <4>
     [attrs |-> [n \in {"x", "y"} |-> IF n = "x" THEN 2 ELSE 4],
      subscript |-> "none", items |-> Nothing,
      callable |-> FALSE, result |-> 0],
     \* 4: a function of no arguments returning <2>
     [attrs |-> Nothing, subscript |-> "none", items |-> Nothing,
      callable |-> TRUE, result |-> 2],
     \* 5: an object with the attribute x = <1> and the items x: <2>, y: <7>
     [attrs |-> [n \in {"x"} |-> 1], subscript |-> "mapping",
      items |-> [n \in {"x", "y"} |-> IF n = "x" THEN 2 ELSE 7],
      callable |-> FALSE, result |-> 0],
     \* 6: a list
     [attrs |-> Nothing, subscript |-> "sequence", items |-> Nothing,
      callable |-> FALSE, result |-> 0],
     \* 7: a function of no arguments returning the function <4>
     [attrs |-> Nothing, subscript |-> "none", items |-> Nothing,
      callable |-> TRUE, result |-> 4] >>

KeyError(key) == [type |-> "KeyError", msg |-> "", thing |-> <<key>>]

\* value[dot] on a value without __getitem__, or on a list with a str.
TypeError == [type |-> "TypeError", msg |-> "", thing |-> <<>>]

\* getattr(value, dot) raises AttributeError.
NoAttribute(value, dot) == dot \notin DOMAIN Objects[value].attrs

\* value[dot]: the item, or the exception the subscription raises.
GetItem(value, dot) ==
  LET o == Objects[value] IN
  IF o.subscript = "mapping"
  THEN IF dot \in DOMAIN o.items
       THEN [ok |-> TRUE, value |-> o.items[dot], err |-> NoError]
       ELSE [ok |-> FALSE, value |-> value, err |-> KeyError(dot)]
  ELSE [ok |-> FALSE, value |-> value, err |-> TypeError]

\* Lines 170-173: getattr, and value[dot] on AttributeError.
Resolve(value, dot) ==
  IF NoAttribute(value, dot)
  THEN GetItem(value, dot)
  ELSE [ok |-> TRUE, value |-> Objects[value].attrs[dot], err |-> NoError]

\* Lines 174-175: a callable value is replaced by the result of calling it.
Called(value) ==
  IF Objects[value].callable THEN Objects[value].result ELSE value

\* A call _do_dots(value, *dots); log holds the values the local `value`
\* has taken.
InitDots ==
  /\ pc = "dots"
  /\ \E v \in 1..Len(Objects) :
       \E n \in 0..MaxDots :
         \E d \in [1..n -> DotNames] :
           /\ args = [value |-> v, dots |-> d]
           /\ log = <<v>>
  /\ context = EmptyDict
  /\ calls = <<>>
  /\ render_fn = <<>>
  /\ builders = <<>>
  /\ all_vars = {}
  /\ loop_vars = {}
  /\ buffered = <<>>
  /\ ops_stack = <<>>
  /\ tokens = <<>>
  /\ stdout = <<>>
  /\ err = NoError
  /\ expr = <<>>
  /\ compiled = NoResult

\* Lines 169-175: one turn of the loop over dots.
NextDot ==
  /\ pc = "dots"
  /\ Len(log) <= Len(args.dots)
  /\ LET r == Resolve(log[Len(log)], args.dots[Len(log)]) IN
     IF r.ok
     THEN log' = Append(log, Called(r.value)) /\ UNCHANGED <<pc, err>>
     ELSE Raise(r.err) /\ UNCHANGED log
  /\ UNCHANGED <<args, context, all_vars, loop_vars, builders, buffered,
                 ops_stack, tokens, stdout, render_fn, calls, expr,
                 compiled>>

\* Line 176: return value.
ReturnValue ==
  /\ pc = "dots"
  /\ Len(log) = Len(args.dots) + 1
  /\ pc' = "returned"
  /\ compiled' = [ok |-> TRUE, value |-> log[Len(log)]]
  /\ UNCHANGED <<args, context, all_vars, loop_vars, builders, buffered,
                 ops_stack, tokens, stdout, err, render_fn, calls, log,
                 expr>>

NextDots == NextDot \/ ReturnValue

SpecDots == InitDots /\ [][NextDots]_vars

HasAttr(v, d) == d \in DOMAIN Objects[v].attrs

HasItem(v, d) ==
  Objects[v].subscript = "mapping" /\ d \in DOMAIN Objects[v].items

\* What the name resolves to: the attribute when there is one, the item
\* otherwise.
Found(v, d) ==
  IF HasAttr(v, d) THEN Objects[v].attrs[d] ELSE Objects[v].items[d]

\* A callable is replaced by what calling it gives.
AfterCall(f) == IF Objects[f].callable THEN Objects[f].result ELSE f

\* The steps taken so far went left to right from the base value, each by
\* attribute first and by item otherwise, with a callable called once.
StepsLeftToRight ==
  /\ log[1] = args.value
  /\ Len(log) <= Len(args.dots) + 1
  /\ \A i \in 1..(Len(log) - 1) :
       /\ HasAttr(log[i], args.dots[i]) \/ HasItem(log[i], args.dots[i])
       /\ log[i + 1] = AfterCall(Found(log[i], args.dots[i]))

\* The call returns the value of the last step; the base value itself when
\* it was given no dots.
ReturnsLastValue ==
  pc = "returned" =>
    /\ Len(log) = Len(args.dots) + 1
    /\ compiled.value = log[Len(log)]
    /\ args.dots = <<>> => compiled.value = args.value

\* The call fails at a step finding neither an attribute nor an item.
FailsWhereNeitherFound ==
  pc = "failed" =>
    /\ ~HasAttr(log[Len(log)], args.dots[Len(log)])
    /\ ~HasItem(log[Len(log)], args.dots[Len(log)])

\* C14: dotted access goes through the names left to right, takes the
\* attribute when the value has it and the item only when it has not,
\* calls a callable result and goes on with what it returns, returns the
\* base value for no names, and fails with a LookupError at a step where
\* neither an attribute nor an item is found.
C14_DotsLeftToRight ==
  /\ StepsLeftToRight
  /\ ReturnsLastValue
  /\ FailsWhereNeitherFound
  /\ pc = "failed" => err.type \in LookupErrors

\* What holds of the failure: a KeyError from a mapping without the key,
\* a TypeError from a value that takes no subscript or no str subscript.
DotsFailAsSubscription ==
  /\ StepsLeftToRight
  /\ ReturnsLastValue
  /\ FailsWhereNeitherFound
  /\ pc = "failed" =>
       err.type = IF Objects[log[Len(log)]].subscript = "mapping"
                  THEN "KeyError" ELSE "TypeError"

(* ------------------------- output, loop variables, tags --------------- *)

\* C15: neither the compile pass nor a render call does I/O: nothing is
\* written to the standard output at any token.
C15_NoOutputWritten == stdout = <<>>

\* C16: a for tag registers its variable as a general variable as well as
\* a loop variable, so the loop variables are among the variables.
C16_LoopVarsAreVars == loop_vars \subseteq all_vars

\* What the for tag does register: its variable as a loop variable, its
\* iterable's names as variables.
ForRegisters ==
  [][(Consumed /\ IsForTag(Current) /\ pc' = "loop") =>
       /\ loop_vars' = loop_vars \cup {Words(Current)[2]}
       /\ all_vars' = all_vars \cup RefNames(Words(Current)[4])]_vars

\* C17: every tag token is taken by the if, the for or the end branch or
\* is rejected by the error every such rejection raises: construction
\* fails at a tag in no other way.
C17_TagDispatchTotal ==
  (FailedAtToken /\ IsTag(Last(tokens))) =>
    err = _syntax_error("Don't understand tag", Last(tokens))

\* Every tag with a word in it is dispatched or rejected in that way.
TagsWithAWordDispatched ==
  (FailedAtToken /\ IsTag(Last(tokens)) /\ Words(Last(tokens)) # <<>>) =>
    err = _syntax_error("Don't understand tag", Last(tokens))

(* ------------------------------ comments ------------------------------ *)

\* The token list with its comment tokens deleted.
NoComments(ts) == SelectSeq(ts, LAMBDA t : ~IsComment(t))

\* The names the expressions, the if tags and the iterables of the for
\* tags of a token list read.
NamesRead(ts) ==
  UNION {IF IsExpression(ts[i]) THEN RefNames(Strip(Inner(ts[i])))
         ELSE IF IsIfTag(ts[i]) THEN RefNames(Words(ts[i])[2])
         ELSE IF IsForTag(ts[i]) THEN RefNames(Words(ts[i])[4])
         ELSE {} : i \in 1..Len(ts)}

\* The variables the for tags of a token list bind.
NamesBound(ts) ==
  {Words(ts[i])[2] : i \in {j \in 1..Len(ts) : IsForTag(ts[j])}}

\* After each token the compile stands where the tokens without the
\* comments put it: the same stack, the same names, the same fragments in
\* the same blocks.
AsWithoutComments ==
  pc \in {"loop", "flushed", "built"} =>
    /\ ops_stack = OpenKinds(NoComments(tokens))
    /\ all_vars = NamesRead(NoComments(tokens))
    /\ loop_vars = NamesBound(NoComments(tokens))
    /\ ItemsFrags(builders[code].code) \o PendingFrags
         = OneEmitPerFragment(NoComments(tokens), 0)

\* The step of a comment token moves on to the next token and does nothing
\* else: no flush, no fragment, no change of stack, names or indentation.
CommentStepIsSkip ==
  (Consumed /\ IsComment(Current)) =>
    UNCHANGED <<pc, err, ops_stack, all_vars, loop_vars, builders, buffered,
                stdout>>

\* C18: comments contribute nothing: the compile of a token list has the
\* stack history, the variable sets and the ordered output fragments, block
\* by block, of the list with its comment tokens deleted.
C18_CommentsContributeNothing ==
  []AsWithoutComments /\ [][CommentStepIsSkip]_vars

\* C18's case: inside a block a comment stood between two pieces of text,
\* which went out together in one extend line of that block.
C18_Witness ==
  /\ pc = "flushed"
  /\ \E i \in 2..(Len(tokens) - 1) :
       /\ IsComment(tokens[i])
       /\ tokens[i - 1] # <<>> /\ tokens[i + 1] # <<>>
       /\ OpenKinds(SubSeq(tokens, 1, i)) # <<>>
  /\ \E i \in 1..Len(builders[code].code) :
       /\ builders[code].code[i].kind = "line"
       /\ builders[code].code[i].line[1] = "extend_result(["
       /\ builders[code].code[i].pad > BodyPad
       /\ Len(LineFrags(builders[code].code[i])) = 2

(* ---------------------------- nesting depth --------------------------- *)

\* The indent level the lines of the function body are added at.
BodyLevel == Prologue[code].indent_level

\* C19: after each token processed the indent level of the accumulator is
\* the level of the function body plus one INDENT_STEP per kind on the
\* operation stack, and the line an if or for tag added stands one step
\* above the level the lines of its block are added at.
C19_IndentTracksDepth ==
  pc \in {"loop", "flushed"} =>
    /\ builders[code].indent_level
         = BodyLevel + INDENT_STEP * Len(ops_stack)
    /\ (tokens # <<>> /\ (IsIfTag(Last(tokens)) \/ IsForTag(Last(tokens)))) =>
         Last(builders[code].code).pad
           = Pad(builders[code].indent_level - INDENT_STEP)

\* C19's case: two blocks were opened and the inner one closed again.
C19_Witness ==
  /\ pc = "loop"
  /\ Len(tokens) = 6
  /\ IsIfTag(tokens[2]) /\ IsForTag(tokens[4]) /\ IsEndTag(tokens[6])
  /\ ops_stack = <<kw_if>>
  /\ builders[code].indent_level = BodyLevel + INDENT_STEP

====
